---- MODULE Spec2Model ----
(***************************************************************************)
(* Model of etl.py: the batch ETL that loads song files and log files into *)
(* the warehouse through one psycopg2 connection.  One action per          *)
(* statement-level step of main / process_data / process_song_file /       *)
(* process_log_file.  The filesystem and the database are the environment: *)
(* a directory's file count and a file's content are chosen when the code  *)
(* reads them, and every cur.execute may raise.                            *)
(***************************************************************************)
EXTENDS Integers, Sequences, FiniteSets, TLC

VARIABLES
    pc,          \* position of the single thread of control
    key,         \* setup key of the running pass: "song_data" / "log_data"
    connsOpened, \* number of psycopg2.connect calls so far
    connOpen,    \* the connection is open
    all_files,   \* key -> list of files found by the pass's os.walk
    discovered,  \* key -> number of times the directory was walked
    i,           \* enumerate index of the current file (1-based)
    raw,         \* records of the current file as read by read_json
    df,          \* index of the filtered DataFrame: positions in raw
    df_time,     \* time rows from prepare_log_df, one per df row
    df_user,     \* user rows from prepare_log_df, one per df row
    j,           \* position of the running iterrows loop in df
    results,     \* cur.fetchone() of the last lookup
    stmts,       \* statements executed for the current file, in order
    txn,         \* files with statements in the open transaction
    started,     \* key -> files func was called on, in order
    committed,   \* key -> files whose conn.commit() ran, in order
    reports,     \* key -> progress lines printed: <<i, num_files>>
    songs,       \* songs table as the connection sees it
    artists,     \* artists table as the connection sees it
    raised       \* <<key, file, where>> of every exception raised, in order

vars == <<pc, key, connsOpened, connOpen, all_files, discovered, i, raw, df,
          df_time, df_user, j, results, stmts, txn, started, committed,
          reports, songs, artists, raised>>

----------------------------------------------------------------------------
(* Bounds of the explored inputs *)

MaxSongFiles == 2
MaxLogFiles == 2
MaxRecs == 2
MaxDayOffset == 13

----------------------------------------------------------------------------
(* Values *)

Keys == {"song_data", "log_data"}

\* A missing JSON field becomes NaN in the DataFrame.
NaN == "NaN"
NaT == <<>>

MsPerDay == 86400000
MsPerHour == 3600000

\* An epoch-millisecond timestamp d * MsPerDay + ms is written <<d, ms>>:
\* the values of real log files exceed 32-bit integers.
Ts(d, ms) == <<d, ms>>

Range(s) == {s[n] : n \in 1..Len(s)}

Upto(n) == [m \in 1..n |-> m]

----------------------------------------------------------------------------
(* pandas datetime conversion *)

\* Civil date of a day count since 1970-01-01 (proleptic Gregorian).
CivilFromDays(z0) ==
    LET z   == z0 + 719468
        era == z \div 146097
        doe == z - era * 146097
        yoe == (doe - doe \div 1460 + doe \div 36524 - doe \div 146096) \div 365
        doy == doe - (365 * yoe + yoe \div 4 - yoe \div 100)
        mp  == (5 * doy + 2) \div 153
        d   == doy - (153 * mp + 2) \div 5 + 1
        m   == IF mp < 10 THEN mp + 3 ELSE mp - 9
        y   == yoe + era * 400 + (IF m <= 2 THEN 1 ELSE 0)
    IN  [year |-> y, month |-> m, day |-> d]

\* pd.to_datetime(ts, unit='ms'): NaN gives NaT.
to_datetime(ts) ==
    IF ts = NaT THEN NaT
    ELSE LET c == CivilFromDays(ts[1])
         IN  <<c.year, c.month, c.day, ts[2] \div MsPerHour>>

SakamotoArr == <<0, 3, 2, 5, 0, 3, 5, 1, 4, 6, 2, 4>>

\* Series.dt.weekday: pandas' dayofweek of the civil date, Monday = 0.
WeekdayMutant(dt) ==
    LET y   == IF dt[2] < 3 THEN dt[1] - 1 ELSE dt[1]
        day == (y + y \div 4 - y \div 100 + y \div 400
                  + SakamotoArr[dt[2]] + dt[3]) % 7
    IN  day
Weekday(dt) ==
    LET y   == IF dt[2] < 3 THEN dt[1] - 1 ELSE dt[1]
        day == (y + y \div 4 - y \div 100 + y \div 400
                  + SakamotoArr[dt[2]] + dt[3]) % 7
    IN  (day + 6) % 7

\* One row of df_time for a valid start_time.
TimeRow(ts) ==
    LET dt == to_datetime(ts)
    IN  [start_time |-> dt, hour |-> dt[4], day |-> dt[3],
         month |-> dt[2], year |-> dt[1], week_day |-> Weekday(dt)]

----------------------------------------------------------------------------
(* Input files *)

\* Field values of the log records explored.
UserIds == {"", NaN, "7"}
Pages == {"NextSong", "Home"}
Titles == {"T1", "T2"}
LogTs == {NaT, Ts(17836, 77415796)}

LogRecordsOf(U, P, S, T) ==
    [userId : U, page : P, ts : T, song : S,
     artist : {"N1"}, length : {180}, firstName : {"Ann"}, lastName : {"Lee"},
     gender : {"F"}, level : {"free"}, sessionId : {139}, location : {"L"},
     userAgent : {"UA"}]

\* Every userId and page, and for the play events of a user every title and
\* every ts.
LogRecords ==
    LogRecordsOf(UserIds, Pages, {"T1"}, LogTs \ {NaT})
        \cup LogRecordsOf({"7"}, {"NextSong"}, Titles, LogTs)

\* A readable log file holds at least one line.
LogFiles == UNION {[1..m -> LogRecords] : m \in 1..MaxRecs}

SongRecords ==
    {[song_id |-> "S1", title |-> "T1", artist_id |-> "A1", year |-> 2000,
      duration |-> 180, artist_name |-> "N1", artist_location |-> "L",
      artist_longitude |-> 1, artist_latitude |-> 2]}

MaxFiles(k) == IF k = "song_data" THEN MaxSongFiles ELSE MaxLogFiles

\* setup[key]['query_path']: the statements of a pass, in list order.
list_query(k) ==
    IF k = "song_data"
    THEN <<"insert_song", "insert_artist">>
    ELSE <<"insert_time", "insert_user", "lookup_song_artist",
           "insert_songplay">>

----------------------------------------------------------------------------
(* Pure parts of the file processors *)

\* df[df.userId != ''] then df[df.page == 'NextSong'], as index labels.
FilterUserId(r) == r.userId /= ""

FilterPage(r) == r.page = "NextSong"

Filtered(rawrecs) ==
    LET keep(n) == FilterUserId(rawrecs[n]) /\ FilterPage(rawrecs[n])
    IN  SelectSeq(Upto(Len(rawrecs)), keep)

\* astype(int) of the week column raises when a start_time is NaT.
PrepareRaises(rawrecs, idx) == \E n \in Range(idx) : rawrecs[n].ts = NaT

UserRow(r) == <<r.userId, r.firstName, r.lastName, r.gender, r.level>>

\* prepare_log_df: df_time and df_user, one row per row of the frame.
prepare_df_time(rawrecs, idx) ==
    [n \in 1..Len(idx) |-> TimeRow(rawrecs[idx[n]].ts)]

prepare_df_user(rawrecs, idx) ==
    [n \in 1..Len(idx) |-> UserRow(rawrecs[idx[n]])]

\* int(row.userId)
IntRaises(s) == s \notin {"7"}
IntOf(s) == IF s = "7" THEN 7 ELSE 0

Null == "NULL"
NoRow == <<>>

\* The lookup statement: join of songs and artists on title, artist name
\* and duration; fetchone gives one (song_id, artist_id) or nothing.
Lookup(artist, song, length) ==
    LET m == {<<s[1], a[1]>> : s \in {x \in songs : x[2] = song /\ x[5] = length},
                               a \in {y \in artists : y[2] = artist}}
        hit == {x \in m : \E s \in songs : s[1] = x[1] /\ s[3] = x[2]}
    IN  IF hit = {} THEN NoRow ELSE CHOOSE x \in hit : TRUE

\* if results: songid, artistid = results else None, None
ResolveMutant(res) == IF res /= NoRow THEN <<res[1], Null>> ELSE <<Null, Null>>
Resolve(res) == IF res /= NoRow THEN res ELSE <<Null, Null>>

SongplayData(r, res) ==
    <<to_datetime(r.ts), IntOf(r.userId), r.level, Resolve(res)[1],
      Resolve(res)[2], r.sessionId, r.location, r.userAgent>>

Stmt(n, label, params) == [q |-> list_query(key)[n + 1], r |-> label, p |-> params]

----------------------------------------------------------------------------
(* Variable groups *)

mainVars == <<key, connsOpened, connOpen>>
passVars == <<all_files, discovered, i, started, committed, reports>>
fileVars == <<raw, df, df_time, df_user, j, results>>
dbVars == <<stmts, txn, songs, artists>>
tables == <<songs, artists>>

NoFiles == [k \in Keys |-> <<>>]

Init ==
    /\ pc = "connect"
    /\ key = "song_data"
    /\ connsOpened = 0
    /\ connOpen = FALSE
    /\ all_files = NoFiles
    /\ discovered = [k \in Keys |-> 0]
    /\ i = 0
    /\ raw = <<>>
    /\ df = <<>>
    /\ df_time = <<>>
    /\ df_user = <<>>
    /\ j = 0
    /\ results = NoRow
    /\ stmts = <<>>
    /\ txn = {}
    /\ started = NoFiles
    /\ committed = NoFiles
    /\ reports = NoFiles
    /\ songs = {}
    /\ artists = {}
    /\ raised = <<>>

----------------------------------------------------------------------------
(* main *)

\* The order of main's two process_data calls.
PassOrderMutant == <<"log_data", "song_data">>
PassOrder == <<"song_data", "log_data">>

\* conn = psycopg2.connect(...); then the first process_data call.
Connect ==
    /\ pc = "connect"
    /\ connsOpened' = connsOpened + 1
    /\ connOpen' = TRUE
    /\ key' = PassOrder[1]
    /\ pc' = "discover"
    /\ UNCHANGED <<passVars, fileVars, dbVars, raised>>

\* conn.close()
ConnClose ==
    /\ pc = "conn_close"
    /\ connOpen' = FALSE
    /\ pc' = "done"
    /\ UNCHANGED <<key, connsOpened, passVars, fileVars, dbVars, raised>>

----------------------------------------------------------------------------
(* process_data *)

\* Head of "for i, datafile in enumerate(all_files, 1)": the position after
\* n files of a list of total files have been handled.
ForNext(n, total) == IF n < total THEN "func" ELSE "cur_close"

\* os.walk / glob over the data path, num_files, and the first loop test.
Discover ==
    /\ pc = "discover"
    /\ \E n \in 0..MaxFiles(key) :
         /\ all_files' = [all_files EXCEPT ![key] = Upto(n)]
         /\ pc' = ForNext(0, n)
         /\ i' = IF n > 0 THEN 1 ELSE 0
    /\ discovered' = [discovered EXCEPT ![key] = @ + 1]
    /\ UNCHANGED <<mainVars, started, committed, reports, fileVars, dbVars,
                   raised>>

\* The position after func returns.
AfterFuncMutant == "report"
AfterFunc == "commit"

\* conn.commit()
Commit ==
    /\ pc = "commit"
    /\ committed' = [committed EXCEPT ![key] = Append(@, i)]
    /\ txn' = {}
    /\ pc' = "report"
    /\ UNCHANGED <<mainVars, all_files, discovered, i, started, reports,
                   fileVars, stmts, tables, raised>>

\* The progress line: i and num_files.
ProgressMutant == <<i, Len(all_files[key]) - i>>
Progress == <<i, Len(all_files[key])>>

\* print('{}/{} files processed.') and the next loop test.  The locals of
\* the func call that returned are kept up to here and dropped now.
Report ==
    /\ pc = "report"
    /\ reports' = [reports EXCEPT ![key] = Append(@, Progress)]
    /\ pc' = ForNext(i, Len(all_files[key]))
    /\ i' = IF i < Len(all_files[key]) THEN i + 1 ELSE i
    /\ raw' = <<>>
    /\ df' = <<>>
    /\ df_time' = <<>>
    /\ df_user' = <<>>
    /\ j' = 0
    /\ results' = NoRow
    /\ stmts' = <<>>
    /\ UNCHANGED <<mainVars, all_files, discovered, started, committed,
                   txn, tables, raised>>

\* What main does after process_data returns for pass k.
AfterPassMutant(k) == "conn_close"
AfterPass(k) == IF k = PassOrder[1] THEN "discover" ELSE "conn_close"

\* cur.close(), return to main, and main's next statement.
CurClose ==
    /\ pc = "cur_close"
    /\ pc' = AfterPass(key)
    /\ key' = IF key = PassOrder[1] THEN PassOrder[2] ELSE key
    /\ UNCHANGED <<connsOpened, connOpen, passVars, fileVars, dbVars, raised>>

----------------------------------------------------------------------------
(* cur.execute and exceptions *)

\* The statement runs in the open transaction of the connection.
Executed(n, label, params) ==
    /\ stmts' = Append(stmts, Stmt(n, label, params))
    /\ txn' = txn \cup {<<key, i>>}

\* An exception leaves func, process_data and main: nothing catches it.
RaisedMutant(where) ==
    /\ pc' = "commit"
    /\ raised' = Append(raised, <<key, i, where>>)
Raised(where) ==
    /\ pc' = "aborted"
    /\ raised' = Append(raised, <<key, i, where>>)

\* func(cur, datafile, list_query_path) is entered for file i.
Enter ==
    /\ pc = "func"
    /\ started' = [started EXCEPT ![key] = Append(@, i)]
    /\ stmts' = <<>>
    /\ UNCHANGED <<mainVars, all_files, discovered, i, committed, reports,
                   txn, tables>>

----------------------------------------------------------------------------
(* process_song_file *)

song_data(r) == <<r.song_id, r.title, r.artist_id, r.year, r.duration>>

artist_data(r) ==
    <<r.artist_id, r.artist_name, r.artist_location, r.artist_longitude,
      r.artist_latitude>>

\* pd.read_json and the two .values[0] selections.
SongRead ==
    /\ key = "song_data"
    /\ Enter
    /\ \/ /\ \E r \in SongRecords : raw' = <<r>>
          /\ pc' = "song_exec0"
          /\ UNCHANGED raised
       \/ /\ Raised("read_json")
          /\ raw' = <<>>
    /\ UNCHANGED <<df, df_time, df_user, j, results>>

\* cur.execute(list_query[0], song_data)
SongExec0 ==
    /\ pc = "song_exec0"
    /\ \/ /\ Executed(0, 0, song_data(raw[1]))
          /\ songs' = songs \cup {song_data(raw[1])}
          /\ pc' = "song_exec1"
          /\ UNCHANGED raised
       \/ /\ Raised("execute")
          /\ UNCHANGED <<stmts, txn, songs>>
    /\ UNCHANGED <<mainVars, passVars, fileVars, artists>>

\* cur.execute(list_query[1], artist_data)
SongExec1 ==
    /\ pc = "song_exec1"
    /\ \/ /\ Executed(1, 0, artist_data(raw[1]))
          /\ artists' = artists \cup {artist_data(raw[1])}
          /\ pc' = AfterFunc
          /\ UNCHANGED raised
       \/ /\ Raised("execute")
          /\ UNCHANGED <<stmts, txn, artists>>
    /\ UNCHANGED <<mainVars, passVars, fileVars, songs>>

----------------------------------------------------------------------------
(* process_log_file *)

\* The row that iterrows yields at position n of the filtered frame.
RowLabelMutant(n) == df[Len(df) + 1 - n]
RowLabel(n) == df[n]

Row(n) == raw[RowLabel(n)]

\* The position after one iteration of a loop over the filtered frame.
LoopNext(n, again, after) == IF n < Len(df) THEN again ELSE after

\* pd.read_json, the two filters and prepare_log_df.
LogRead ==
    /\ key = "log_data"
    /\ Enter
    /\ \/ \E f \in LogFiles :
            /\ raw' = f
            /\ df' = Filtered(f)
            /\ IF PrepareRaises(f, df')
               THEN /\ Raised("prepare_log_df")
                    /\ df_time' = <<>>
                    /\ df_user' = <<>>
               ELSE /\ df_time' = prepare_df_time(f, df')
                    /\ df_user' = prepare_df_user(f, df')
                    /\ pc' = IF Len(df') > 0 THEN "log_time" ELSE AfterFunc
                    /\ UNCHANGED raised
       \/ /\ Raised("read_json")
          /\ raw' = <<>>
          /\ df' = <<>>
          /\ df_time' = <<>>
          /\ df_user' = <<>>
    /\ j' = 1
    /\ results' = NoRow

\* for i, row in df_time.iterrows(): cur.execute(list_query[0], list(row))
LogInsertTime ==
    /\ pc = "log_time"
    /\ \/ /\ Executed(0, RowLabel(j), df_time[j])
          /\ j' = LoopNext(j, j + 1, 1)
          /\ pc' = LoopNext(j, "log_time", "log_user")
          /\ UNCHANGED raised
       \/ /\ Raised("execute")
          /\ UNCHANGED <<stmts, txn, j>>
    /\ UNCHANGED <<mainVars, passVars, raw, df, df_time, df_user, results,
                   tables>>

\* for i, row in df_user.iterrows(): cur.execute(list_query[1], row)
LogInsertUser ==
    /\ pc = "log_user"
    /\ \/ /\ Executed(1, RowLabel(j), df_user[j])
          /\ j' = LoopNext(j, j + 1, 1)
          /\ pc' = LoopNext(j, "log_user", "log_lookup")
          /\ UNCHANGED raised
       \/ /\ Raised("execute")
          /\ UNCHANGED <<stmts, txn, j>>
    /\ UNCHANGED <<mainVars, passVars, raw, df, df_time, df_user, results,
                   tables>>

\* cur.execute(list_query[2], (row.artist, row.song, row.length)); fetchone
LogLookup ==
    /\ pc = "log_lookup"
    /\ \/ /\ Executed(2, RowLabel(j), <<Row(j).artist, Row(j).song, Row(j).length>>)
          /\ results' = Lookup(Row(j).artist, Row(j).song, Row(j).length)
          /\ pc' = "log_songplay"
          /\ UNCHANGED raised
       \/ /\ Raised("execute")
          /\ UNCHANGED <<stmts, txn, results>>
    /\ UNCHANGED <<mainVars, passVars, raw, df, df_time, df_user, j, tables>>

\* songplay_data = (...); cur.execute(list_query[3], songplay_data)
LogInsertSongplay ==
    /\ pc = "log_songplay"
    /\ \/ /\ IntRaises(Row(j).userId)
          /\ Raised("int")
          /\ UNCHANGED <<stmts, txn, j>>
       \/ /\ ~IntRaises(Row(j).userId)
          /\ Executed(3, RowLabel(j), SongplayData(Row(j), results))
          /\ j' = LoopNext(j, j + 1, j)
          /\ pc' = LoopNext(j, "log_lookup", AfterFunc)
          /\ UNCHANGED raised
       \/ /\ Raised("execute")
          /\ UNCHANGED <<stmts, txn, j>>
    /\ UNCHANGED <<mainVars, passVars, raw, df, df_time, df_user, results,
                   tables>>

----------------------------------------------------------------------------
(* The program *)

Next ==
    \/ Connect
    \/ Discover
    \/ SongRead
    \/ SongExec0
    \/ SongExec1
    \/ LogRead
    \/ LogInsertTime
    \/ LogInsertUser
    \/ LogLookup
    \/ LogInsertSongplay
    \/ Commit
    \/ Report
    \/ CurClose
    \/ ConnClose

Spec == Init /\ [][Next]_vars

\* One thread runs the program: a step that can be taken is taken.
FairSpec == Spec /\ WF_vars(Next)

----------------------------------------------------------------------------
(* prepare_log_df alone, over a domain of timestamps *)

TimeBases == {0, 11010, 17836}
TimeDays == {b + d : b \in TimeBases, d \in 0..MaxDayOffset}
TimeMs == {0, 43200000, MsPerDay - 1}

InitTime ==
    /\ pc = "prepare"
    /\ key = "log_data"
    /\ connsOpened = 1
    /\ connOpen = TRUE
    /\ all_files = [NoFiles EXCEPT !["log_data"] = Upto(1)]
    /\ discovered = [k \in Keys |-> 1]
    /\ i = 1
    /\ \E r \in LogRecords, d \in TimeDays, ms \in TimeMs :
         /\ r.userId = "7"
         /\ r.page = "NextSong"
         /\ r.song = "T1"
         /\ raw = <<[r EXCEPT !.ts = Ts(d, ms)]>>
    /\ df = Filtered(raw)
    /\ df_time = <<>>
    /\ df_user = <<>>
    /\ j = 0
    /\ results = NoRow
    /\ stmts = <<>>
    /\ txn = {}
    /\ started = [NoFiles EXCEPT !["log_data"] = Upto(1)]
    /\ committed = NoFiles
    /\ reports = NoFiles
    /\ songs = {}
    /\ artists = {}
    /\ raised = <<>>

\* df_time, df_user = prepare_log_df(df)
PrepareLogDf ==
    /\ pc = "prepare"
    /\ df_time' = prepare_df_time(raw, df)
    /\ df_user' = prepare_df_user(raw, df)
    /\ pc' = "log_time"
    /\ UNCHANGED <<mainVars, passVars, raw, df, j, results, dbVars, raised>>

NextTime == PrepareLogDf

SpecTime == InitTime /\ [][NextTime]_vars

----------------------------------------------------------------------------
(* Properties *)

InFile ==
    pc \in {"song_exec0", "song_exec1", "log_time", "log_user", "log_lookup",
            "log_songplay"}

\* Every statement func issues for the current file has been executed.
FileLoaded ==
    IF key = "song_data" THEN Len(stmts) = 2 ELSE Len(stmts) = 4 * Len(df)

Of(q) == SelectSeq(stmts, LAMBDA s : s.q = q)

Labels(ss) == [n \in 1..Len(ss) |-> ss[n].r]

IsPrefix(a, b) == Len(a) <= Len(b) /\ \A n \in 1..Len(a) : a[n] = b[n]

\* A log file has been read into the frame.
LogFrame == key = "log_data" /\ raw /= <<>>

\* C1: within a pass the files are handled one after another with one commit
\* per file: the commits are of files 1, 2, ... each once; a file is entered,
\* and its statements run, only when all files before it are committed and
\* the transaction holds statements of no other file; the commit of a file
\* comes after all its statements; a finished pass has committed every
\* discovered file.
C1_OneCommitPerFile ==
    /\ \A k \in Keys :
         /\ committed[k] = Upto(Len(committed[k]))
         /\ Len(committed[k]) <= Len(all_files[k])
    /\ pc = "func" => committed[key] = Upto(i - 1) /\ txn = {}
    /\ InFile => committed[key] = Upto(i - 1) /\ txn \subseteq {<<key, i>>}
    /\ pc = "commit" =>
         /\ FileLoaded
         /\ committed[key] = Upto(i - 1)
         /\ txn = IF stmts = <<>> THEN {} ELSE {<<key, i>>}
    /\ pc = "report" => FileLoaded /\ committed[key] = Upto(i) /\ txn = {}
    /\ pc \in {"cur_close", "conn_close", "done"} =>
         committed[key] = all_files[key] /\ txn = {}

C1_Witness ==
    /\ pc = "report"
    /\ key = "log_data"
    /\ i = 2
    /\ Len(stmts) = 8

\* C2: an exception in file k of a pass aborts the run there: files 1..k-1
\* are committed, file k is not, no later file is entered, no later pass
\* starts, and nothing runs afterwards (no retry).
C2_AbortAtFailingFile ==
    raised /= <<>> =>
        LET k == raised[1][1]
            f == raised[1][2]
        IN  /\ Len(raised) = 1
            /\ pc = "aborted"
            /\ key = k
            /\ committed[k] = Upto(f - 1)
            /\ started[k] = Upto(f)
            /\ Len(reports[k]) = f - 1
            /\ txn \subseteq {<<k, f>>}
            /\ k = "song_data" =>
                 started["log_data"] = <<>> /\ discovered["log_data"] = 0
            /\ ~ENABLED Next

C2_Witness ==
    /\ pc = "aborted"
    /\ raised = << <<"log_data", 2, "execute">> >>
    /\ Len(all_files["log_data"]) = 2
    /\ txn = {<<"log_data", 2>>}

\* C3: the song pass precedes the log pass: the log directory is walked, a
\* log file is read or a lookup is issued only after every discovered song
\* file is committed, and never after the song pass raised.
C3_SongPassFirst ==
    /\ \/ discovered["log_data"] > 0
       \/ started["log_data"] /= <<>>
       \/ key = "log_data"
       \/ \E n \in 1..Len(stmts) : stmts[n].q = "lookup_song_artist"
       => /\ discovered["song_data"] = 1
          /\ committed["song_data"] = all_files["song_data"]
          /\ \A n \in 1..Len(raised) : raised[n][1] /= "song_data"
    /\ (\E n \in 1..Len(raised) : raised[n][1] = "song_data")
       => discovered["log_data"] = 0 /\ started["log_data"] = <<>>

C3_Witness ==
    /\ pc = "log_songplay"
    /\ Len(committed["song_data"]) = 2
    /\ results /= NoRow

Rank(q) ==
    CASE q = "insert_song" -> 1
      [] q = "insert_artist" -> 2
      [] q = "insert_time" -> 1
      [] q = "insert_user" -> 2
      [] q = "lookup_song_artist" -> 3
      [] q = "insert_songplay" -> 3

\* C4: the statements of one file run in a fixed order.  Log file: time
\* rows, then user rows, then per row the lookup followed by the songplay
\* insert, each row set in the order of the filtered frame.  Song file: the
\* song insert, then the artist insert.
C4_StatementOrder ==
    /\ \A a, b \in 1..Len(stmts) : a < b => Rank(stmts[a].q) <= Rank(stmts[b].q)
    /\ key = "song_data" => IsPrefix(Labels(stmts), <<0, 0>>)
                            /\ IsPrefix([n \in 1..Len(stmts) |-> stmts[n].q],
                                        <<"insert_song", "insert_artist">>)
    /\ LogFrame =>
         /\ IsPrefix(Labels(Of("insert_time")), df)
         /\ IsPrefix(Labels(Of("insert_user")), df)
         /\ IsPrefix(Labels(Of("lookup_song_artist")), df)
         /\ IsPrefix(Labels(Of("insert_songplay")), df)
         /\ Of("insert_user") /= <<>> => Len(Of("insert_time")) = Len(df)
         /\ Of("lookup_song_artist") /= <<>> => Len(Of("insert_user")) = Len(df)
         /\ Len(Of("insert_songplay")) <= Len(Of("lookup_song_artist"))
         /\ Len(Of("lookup_song_artist")) <= Len(Of("insert_songplay")) + 1
         /\ \A n \in 1..Len(stmts) :
              stmts[n].q = "insert_songplay" =>
                  /\ stmts[n - 1].q = "lookup_song_artist"
                  /\ stmts[n - 1].r = stmts[n].r

C4_Witness ==
    /\ LogFrame
    /\ pc = "commit"
    /\ Len(df) = 2
    /\ Len(stmts) = 8

\* The records the filtering policy keeps: userId neither empty nor
\* missing, page NextSong.
Qualifies(r) == r.userId /= "" /\ r.userId /= NaN /\ r.page = "NextSong"

Count(q, label) == Len(SelectSeq(stmts, LAMBDA s : s.q = q /\ s.r = label))

\* C5: the frame of a log file holds exactly the records with a userId that
\* is neither empty nor missing and page NextSong; statements run only for
\* those, and a loaded file has one time, one user and one songplay insert
\* for each of them.
C5_RetainedExactly ==
    LogFrame =>
        /\ df = SelectSeq(Upto(Len(raw)), LAMBDA n : Qualifies(raw[n]))
        /\ \A n \in 1..Len(stmts) : Qualifies(raw[stmts[n].r])
        /\ pc \in {"commit", "report"} =>
             \A n \in 1..Len(raw) :
                \A q \in {"insert_time", "insert_user", "insert_songplay"} :
                    Count(q, n) = IF Qualifies(raw[n]) THEN 1 ELSE 0

Songplays == Of("insert_songplay")

\* C6: every songplay row inserted has song_id and artist_id both null or
\* both set; a row whose lookup found nothing has both null and its other
\* fields from the record; a loaded file has a songplay row for every row of
\* the frame, lookup hit or not.
C6_LookupAllOrNothing ==
    LogFrame =>
        /\ \A n \in 1..Len(Songplays) :
             LET s   == Songplays[n]
                 r   == raw[s.r]
                 res == Lookup(r.artist, r.song, r.length)
             IN  /\ (s.p[4] = Null) <=> (s.p[5] = Null)
                 /\ res = NoRow =>
                      s.p = <<to_datetime(r.ts), IntOf(r.userId), r.level, Null,
                              Null, r.sessionId, r.location, r.userAgent>>
                 /\ res /= NoRow => s.p[4] = res[1] /\ s.p[5] = res[2]
        /\ pc \in {"commit", "report"} => Labels(Songplays) = df
        /\ pc = "log_songplay" /\ results = NoRow => raised = <<>>

C6_Witness ==
    /\ LogFrame
    /\ pc = "commit"
    /\ Len(Songplays) = 2
    /\ Songplays[1].p[4] = Null
    /\ Songplays[2].p[4] /= Null

LacksField(r) == r.userId = NaN \/ r.ts = NaT

\* C7: a log record that lacks a required field is skipped and nothing else:
\* it is not in the frame, no statement runs for it, and it never makes the
\* shaping of its file raise.
C7_SkipsRecordLackingField ==
    /\ LogFrame =>
         /\ \A n \in Range(df) : ~LacksField(raw[n])
         /\ \A n \in 1..Len(stmts) : ~LacksField(raw[stmts[n].r])
    /\ \A n \in 1..Len(raised) : raised[n][3] \notin {"prepare_log_df", "int"}

DoneOK ==
    /\ connsOpened = 1
    /\ ~connOpen
    /\ raised = <<>>
    /\ \A k \in Keys :
         /\ discovered[k] = 1
         /\ committed[k] = all_files[k]
         /\ started[k] = all_files[k]
    /\ txn = {}

\* C8: a run of main ends, and one in which nothing raises ends with one
\* connection opened, both passes done (song pass first, see C3) with every
\* discovered file committed once, and the connection closed; the
\* connection is closed at no earlier point.
C8_RunCompletes ==
    /\ <>(pc = "done" \/ raised /= <<>>)
    /\ [](pc = "done" => DoneOK)
    /\ [](connsOpened <= 1)
    /\ [](pc \notin {"connect", "done"} => connOpen)

C8_Witness ==
    /\ pc = "done"
    /\ Len(committed["song_data"]) = 0
    /\ Len(committed["log_data"]) = 2

\* ISO-8601 day of week of an epoch day: 1970-01-01 was a Thursday (4).
IsoWeekday(ts) == ((ts[1] + 3) % 7) + 1

\* C9 as claimed: week_day is the ISO day-of-week number, Monday = 1.
C9_WeekdayIsIso ==
    LogFrame =>
        \A n \in 1..Len(df_time) : df_time[n].week_day = IsoWeekday(raw[df[n]].ts)

\* C9: week_day is the ISO day-of-week number less one: Monday = 0 through
\* Sunday = 6.
C9_WeekdayMondayZero ==
    LogFrame =>
        \A n \in 1..Len(df_time) :
            df_time[n].week_day = IsoWeekday(raw[df[n]].ts) - 1

C9_Witness ==
    /\ LogFrame
    /\ Len(df_time) = 1
    /\ df_time[1].week_day = 6
    /\ df_time[1].year = 2000
    /\ df_time[1].month = 2
    /\ df_time[1].day = 27

\* C10: a pass walks its directory once, before its first file; the n-th
\* progress line follows the n-th commit and shows n of the number of files
\* found by that walk.
C10_ProgressOfFixedTotal ==
    \A k \in Keys :
        /\ discovered[k] <= 1
        /\ started[k] /= <<>> => discovered[k] = 1
        /\ reports[k] = [n \in 1..Len(reports[k]) |-> <<n, Len(all_files[k])>>]
        /\ Len(reports[k]) <= Len(committed[k])
        /\ Len(committed[k]) <= Len(reports[k]) + 1
        /\ Len(committed[k]) = Len(reports[k]) + 1 => pc = "report" /\ key = k

C10_Witness ==
    /\ Len(reports["log_data"]) = 2
    /\ Len(reports["song_data"]) = 1

====
